---- MODULE Spec2Model ----
(***************************************************************************)
(* The streaming conversation engine of local-ai-workspace: the frame      *)
(* decoder of api.chat.send (src/src/lib/api.ts), the session store of     *)
(* useAppStore (src/src/lib/types.ts, second half), the useChat.send hook  *)
(* (src/src/hooks/useChat.ts) and the confidence aggregate of              *)
(* SourceCitation (src/src/components/SourceCitation.tsx).                 *)
(*                                                                         *)
(* Strings are sequences of characters.  An optional value (a field that   *)
(* may be undefined or null) is a set: {} when absent, {v} when present.   *)
(* JavaScript's truthiness test on an optional string, x || d, therefore   *)
(* reads: d when x is {} or {<<>>}, the value otherwise.                   *)
(***************************************************************************)
EXTENDS Integers, Sequences, FiniteSets, TLC

\* ------------------------------------------------------------------ bounds

\* Lines of one response body.
MaxLines == 3
\* Lines of one response body when sends run concurrently.
MaxConcLines == 2
\* sendMessage invocations that can be in flight at once.
MaxSends == 2
\* Sources handed to SourceCitation.
MaxSources == 4

\* ------------------------------------------------------ strings, optionals

NL == "\n"
SP == " "

None == {}
Some(v) == {v}
The(o) == CHOOSE v \in o : TRUE

\* x || d for an optional string x.
OrElse(o, d) == IF o = None \/ o = Some(<<>>) THEN d ELSE The(o)

\* x || d for an optional array x (an array is always truthy).
OrElseList(o, d) == IF o = None THEN d ELSE The(o)

RECURSIVE Concat(_)
Concat(ss) == IF ss = <<>> THEN <<>> ELSE Head(ss) \o Concat(Tail(ss))

Last(s) == s[Len(s)]
Front(s) == SubSeq(s, 1, Len(s) - 1)
IsPrefix(s, t) == Len(s) <= Len(t) /\ SubSeq(t, 1, Len(s)) = s

\* ----------------------------------------------------------- frame decoder

\* The event-prefix marker and its length (slice(6)).
Marker == <<"d", "a", "t", "a", ":", SP>>
MarkerLen == 6

IsSpace(c) == c \in {SP, "\r", "\t"}

\* String.prototype.split("\n"): the segments between line breaks, at least one.
RECURSIVE Split(_)
Split(s) ==
  IF \A k \in 1..Len(s) : s[k] # NL THEN <<s>>
  ELSE LET k == CHOOSE k \in 1..Len(s) : s[k] = NL /\ \A j \in 1..(k - 1) : s[j] # NL
       IN <<SubSeq(s, 1, k - 1)>> \o Split(SubSeq(s, k + 1, Len(s)))

\* String.prototype.trim().
RECURSIVE TrimStart(_)
TrimStart(s) == IF s # <<>> /\ IsSpace(Head(s)) THEN TrimStart(Tail(s)) ELSE s
RECURSIVE TrimEnd(_)
TrimEnd(s) == IF s # <<>> /\ IsSpace(Last(s)) THEN TrimEnd(Front(s)) ELSE s
Trim(s) == TrimEnd(TrimStart(s))

StartsWith(s, p) == IsPrefix(p, s)
Slice(s, n) == SubSeq(s, n + 1, Len(s))

\* JSON texts are sequences of tokens: braces, a type name, field values.
TypeTokens == {"chunk", "done", "error", "ping"}
ContentTokens == {"a", "b", "x", "e"}
IdTokens == {"m1"}
SourcesTokens == {"s0", "s1"}
FieldTokens == ContentTokens \cup IdTokens \cup SourcesTokens

\* One retrieval result; only the confidence is read by the client's logic.
Source(c) == [filename |-> "a.pdf", confidence |-> c]

\* The value of a field token.
ContentOf(t) == IF t = "e" THEN <<>> ELSE <<t>>
SourcesOf(t) == IF t = "s0" THEN <<>> ELSE <<Source("high")>>

\* A parsed JSON value: an object with the StreamChunk fields, or null.
JObject(t, c, m, s) ==
  [json |-> "object", type |-> t, content |-> c, message_id |-> m, sources |-> s]
JNull == [json |-> "null", type |-> None, content |-> None, message_id |-> None, sources |-> None]

FieldsOk(fs) ==
  /\ \A k \in 1..Len(fs) : fs[k] \in FieldTokens
  /\ Cardinality({k \in 1..Len(fs) : fs[k] \in ContentTokens}) <= 1
  /\ Cardinality({k \in 1..Len(fs) : fs[k] \in IdTokens}) <= 1
  /\ Cardinality({k \in 1..Len(fs) : fs[k] \in SourcesTokens}) <= 1

FieldValue(fs, kind) ==
  LET ks == {k \in 1..Len(fs) : fs[k] \in kind}
  IN IF ks = {} THEN None ELSE Some(fs[CHOOSE k \in ks : TRUE])

\* JSON.parse: [ok, value]; ok is FALSE where JSON.parse throws a SyntaxError.
ParseJSON(body) ==
  LET bad == [ok |-> FALSE, value |-> JNull]
  IN IF body = <<"null">> THEN [ok |-> TRUE, value |-> JNull]
     ELSE IF Len(body) < 2 \/ Head(body) # "{" \/ Last(body) # "}" THEN bad
     ELSE LET inner == SubSeq(body, 2, Len(body) - 1)
              typed == inner # <<>> /\ Head(inner) \in TypeTokens
              fs == IF typed THEN Tail(inner) ELSE inner
              c == FieldValue(fs, ContentTokens)
              m == FieldValue(fs, IdTokens)
              s == FieldValue(fs, SourcesTokens)
          IN IF ~FieldsOk(fs) THEN bad
             ELSE [ok |-> TRUE,
                   value |-> JObject(IF typed THEN Some(Head(inner)) ELSE None,
                                     IF c = None THEN None ELSE Some(ContentOf(The(c))),
                                     m,
                                     IF s = None THEN None ELSE Some(SourcesOf(The(s))))]

\* The body of the for loop over the complete lines of one read: the values
\* yielded, in order.
RECURSIVE DecodeLines(_)
DecodeLines(lines) ==
  IF lines = <<>> THEN <<>>
  ELSE LET trimmed == Trim(Head(lines))
           rest == DecodeLines(Tail(lines))
       IN IF ~StartsWith(trimmed, Marker) THEN rest
          ELSE LET r == ParseJSON(Slice(trimmed, MarkerLen))
               IN IF r.ok THEN <<r.value>> \o rest ELSE rest

\* A decoder that keeps no residual text between reads.
DecodeFragmentForgets(buffer, fragment) ==
  LET lines == Split(fragment)
  IN [buffer |-> <<>>, yielded |-> DecodeLines(Front(lines))]

\* One pass of the while loop after a read that returned text: the new residual
\* buffer and the values yielded.
DecodeFragment(buffer, fragment) ==
  LET lines == Split(buffer \o fragment)
  IN [buffer |-> Last(lines), yielded |-> DecodeLines(Front(lines))]

\* ------------------------------------------------------ confidence (render)

\* s.confidence as the component reads it: absent (undefined) is falsy.
NoConfidence == "absent"
Confidences == {"high", "medium", "low", "unknown", NoConfidence}

CountWhere(srcs, label) == Cardinality({k \in 1..Len(srcs) : srcs[k].confidence = label})

\* SourceCitation: hasConfidence, highConfidenceCount, overallConfidence.
\* a >= n / 2 over the reals is 2a >= n; "undefined" is the absent label.
OverallConfidence(srcs) ==
  LET hasConfidence == \E k \in 1..Len(srcs) :
                         srcs[k].confidence # NoConfidence /\ srcs[k].confidence # "unknown"
      highConfidenceCount == CountWhere(srcs, "high")
  IN IF hasConfidence
     THEN IF 2 * highConfidenceCount >= Len(srcs) THEN "high"
          ELSE IF \E k \in 1..Len(srcs) : srcs[k].confidence = "medium" THEN "medium"
          ELSE "low"
     ELSE "undefined"

\* ------------------------------------------------------------- environment

Conv(id, mode) == [id |-> id, mode |-> mode]

\* The conversations of the sidebar, and the one the server creates.
ListedConversations == {Conv("c1", "general"), Conv("c2", "workspace")}
ListedIds == {conv.id : conv \in ListedConversations}
CreatedId == "c3"
Modes == {"general", "workspace"}
WorkspaceIds == {"w1"}

\* What the user types.
Contents == {<<"q">>}

\* Contents that are empty once trimmed.
BlankContents == {<<>>, <<SP>>}

\* crypto.randomUUID(): the k-th identifier generated by the i-th invocation of
\* sendMessage (identifiers never repeat).
LocalId(i, k) == "uuid-" \o ToString(i) \o "-" \o ToString(k)

Msg(id, cid, role, content, srcs) ==
  [id |-> id, conversation_id |-> cid, role |-> role, content |-> content, sources |-> srcs]

\* GET /chat/conversations/{id}/messages: what the server may hold for a
\* conversation (nothing, or one exchange).
StoredExchange(cid) ==
  << Msg(cid \o "-1", cid, "user", <<"p">>, <<>>),
     Msg(cid \o "-2", cid, "assistant", <<"r">>, <<Source("high")>>) >>
ServerMessages(cid) == {<<>>, StoredExchange(cid)}

\* What the user leaves in the textarea of a message being edited.
EditTexts == {<<"p">>, <<"p", SP>>, <<"q">>}

\* PUT /chat/conversations/{id}/messages/{messageId}: the list the server
\* holds after the edit; the content of the message is replaced and no message
\* is removed.
EditedList(msgs, id, content) ==
  [k \in 1..Len(msgs) |-> IF msgs[k].id = id THEN [msgs[k] EXCEPT !.content = content]
                           ELSE msgs[k]]
ServerKnows(cid, id) == \E k \in 1..Len(StoredExchange(cid)) : StoredExchange(cid)[k].id = id

\* Response bodies of POST /chat/send.
ChunkA == <<"{", "chunk", "a", "}">>
ChunkB == <<"{", "chunk", "b", "}">>
DoneFull == <<"{", "done", "m1", "s1", "}">>
DoneBare == <<"{", "done", "}">>
ErrorX == <<"{", "error", "x", "}">>
ErrorBare == <<"{", "error", "}">>
NullBody == <<"null">>

EventLine(body) == Marker \o body

SeqsUpTo(S, n) == UNION {[1..k -> S] : k \in 0..n}

RECURSIVE JoinLines(_)
JoinLines(ls) == IF ls = <<>> THEN <<>> ELSE Head(ls) \o <<NL>> \o JoinLines(Tail(ls))

\* Bodies whose every line ends with a line break, and the same bodies cut
\* before the final line break.
Terminated(lines, n) == {JoinLines(ls) : ls \in SeqsUpTo(lines, n)}
Unterminated(lines, n) == {Front(JoinLines(ls)) : ls \in SeqsUpTo(lines, n) \ {<<>>}}

\* Bodies read in pieces cut anywhere.
WireLines == {EventLine(ChunkA), EventLine(ChunkB), EventLine(DoneFull), EventLine(ErrorX),
              EventLine(NullBody)}
WireTexts == Terminated(WireLines, MaxLines) \cup Unterminated(WireLines, MaxLines)

\* Bodies read line by line.
EventLines == {EventLine(ChunkA), EventLine(ChunkB), EventLine(DoneFull), EventLine(DoneBare),
               EventLine(ErrorX), EventLine(ErrorBare)}
EventTexts == Terminated(EventLines, MaxLines)

ConcLines == {EventLine(ChunkA), EventLine(DoneFull), EventLine(ErrorX)}

\* Lines for the decoder alone: events, a null body, a line without the
\* marker, a body that does not parse, an unknown type, and a line with
\* surrounding white space and a carriage return.
Unparsable == <<"{", "chunk">>
Ping == <<"{", "ping", "}">>
DecoderLines == {EventLine(ChunkA), EventLine(DoneFull), EventLine(NullBody), ChunkA,
                 EventLine(Unparsable), EventLine(Ping),
                 <<SP>> \o EventLine(ChunkB) \o <<"\r">>}
DecoderTexts == Terminated(DecoderLines, MaxLines)

\* Error messages (each one string).
GenericStreamError == <<"An error occurred">>
StreamFailed == <<"Stream failed">>
NoResponseBody == <<"No response body">>
FailedToFetch == <<"Failed to fetch">>
NullTypeError == <<"Cannot read properties of null">>
ServerDetail == <<"detail">>

\* ------------------------------------------------------------------- state

VARIABLES
  activeConversation,  \* optional Conversation
  messages,            \* Message[]
  chatMode,            \* "general" | "workspace"
  activeWorkspace,     \* optional workspace id
  workspaces,          \* the ids of the listed workspaces
  isStreaming,
  streamingContent,
  streamingSources,
  error,               \* optional string
  sends,               \* the invocations of sendMessage
  regen,               \* the invocation of regenerateLastResponse
  chat,                \* the invocation of useChat.send
  loads,               \* conversations whose message list is being fetched
  edit,                \* a ChatMessage in edit mode and the invocation of handleEdit
  citSources,          \* SourceCitation: its sources prop
  citConfidence        \* SourceCitation: the overallConfidence it renders

storeVars == <<activeConversation, messages, chatMode, activeWorkspace, workspaces, isStreaming,
               streamingContent, streamingSources, error>>
procVars == <<sends, regen, chat, loads, edit>>
citVars == <<citSources, citConfidence>>
vars == <<storeVars, procVars, citVars>>

Slots == 1..MaxSends

NoMsg == Msg("", "", "", <<>>, <<>>)
NoRequest == [conversation_id |-> "", message |-> <<>>, mode |-> "", workspace_id |-> None]

\* An invocation of sendMessage: where it stands (pc), who called it, the
\* closure's activeConversation and userMessage, the message list it wrote with
\* the optimistic insert (history), the identifiers it generated, the request,
\* the response body (when the server has it ready) with the number of
\* characters read so far, the number of reads that returned text, the
\* decoder's residual buffer, the values of the current read that the for-await
\* loop has not consumed yet, and whether it has handled a done or error event
\* or caught an exception (terminal).  `prior` is the error the store held when
\* sendMessage was called, kept while the request is unanswered; `response` is
\* the kind of body of a non-success response, `thrown` the message of the
\* exception the catch block caught.
FreeSend ==
  [pc |-> "free", origin |-> "", conv |-> None, userMessage |-> NoMsg, history |-> <<>>,
   ids |-> 0, request |-> NoRequest, text |-> <<>>, pos |-> 0, reads |-> 0, buffer |-> <<>>,
   pending |-> <<>>, terminal |-> FALSE, prior |-> None, response |-> "", thrown |-> None]
SpentSend == [FreeSend EXCEPT !.pc = "spent"]

IdleRegen == [pc |-> "idle", conv |-> None, snapshot |-> <<>>, deleted |-> "", recovered |-> None]
IdleChat == [pc |-> "idle", content |-> <<>>, conv |-> None]

\* A ChatMessage component and the handleEdit it calls: the message it renders
\* (id, with its content in `original`), its editing flag and editContent; then
\* where handleEdit stands (pc), its content argument, the activeConversation
\* editMessage read, the isStreaming of the render whose send it calls, and the
\* message list when the edit was submitted (before),
\* whether editMessage has reloaded the list, and whether its catch block ran.
IdleEdit ==
  [pc |-> "idle", id |-> "", original |-> <<>>, editing |-> FALSE, editContent |-> <<>>,
   content |-> <<>>, conv |-> None, streaming |-> FALSE, before |-> <<>>,
   reloaded |-> FALSE, failed |-> FALSE]

InFlight(i) == sends[i].pc \in {"fetch", "notok", "read", "yield"}

\* The slot the next invocation of sendMessage takes.
NextSlot == CHOOSE i \in Slots : sends[i].pc = "free" /\ \A j \in 1..(i - 1) : sends[j].pc # "free"
HasSlot == \E i \in Slots : sends[i].pc = "free"

Quiescent ==
  /\ \A i \in Slots : sends[i].pc \in {"free", "spent"}
  /\ regen.pc = "idle"
  /\ chat.pc = "idle"
  /\ edit.pc = "idle"
  /\ loads = {}

Init ==
  /\ activeConversation = None
  /\ messages = <<>>
  /\ chatMode = "general"
  /\ activeWorkspace = None
  /\ isStreaming = FALSE
  /\ streamingContent = <<>>
  /\ streamingSources = <<>>
  /\ error = None
  /\ sends = [i \in Slots |-> FreeSend]
  /\ regen = IdleRegen
  /\ chat = IdleChat
  /\ loads = {}
  /\ edit = IdleEdit
  /\ workspaces = WorkspaceIds
  /\ citSources = <<>>
  /\ citConfidence = "unrendered"

\* ------------------------------------------------------------ sendMessage

\* The caller's continuation once sendMessage has returned.
Resume(origin) ==
  /\ regen' = IF origin = "regenerate" THEN IdleRegen ELSE regen
  /\ chat' = IF origin = "useChat" THEN IdleChat ELSE chat
  /\ edit' = IF origin = "edit" THEN [edit EXCEPT !.pc = "idle"] ELSE edit

\* A sendMessage that leaves the store's error as it finds it.
SendMessageKeepsError(content, origin, base) ==
  IF activeConversation = None
  THEN /\ messages' = base
       /\ UNCHANGED <<isStreaming, streamingContent, streamingSources, error, sends>>
  ELSE LET conv == The(activeConversation)
           userMessage == Msg(LocalId(NextSlot, 0), conv.id, "user", content, <<>>)
           request == [conversation_id |-> conv.id,
                       message |-> content,
                       mode |-> chatMode,
                       workspace_id |-> IF chatMode = "workspace" THEN activeWorkspace ELSE None]
       IN /\ HasSlot
          /\ messages' = Append(base, userMessage)
          /\ isStreaming' = TRUE
          /\ streamingContent' = <<>>
          /\ streamingSources' = <<>>
          /\ error' = error
          /\ sends' = [sends EXCEPT ![NextSlot] =
                         [FreeSend EXCEPT !.pc = "fetch", !.origin = origin, !.ids = 1,
                                          !.conv = activeConversation,
                                          !.userMessage = userMessage,
                                          !.history = Append(base, userMessage),
                                          !.request = request, !.prior = error]]

\* sendMessage up to its first suspension: the early return, the optimistic
\* insert of the user message, the request, and the call of fetch.  `base` is
\* the message list at the call (regenerate sets it right before the call).
SendMessage(content, origin, base) ==
  IF activeConversation = None
  THEN /\ messages' = base
       /\ UNCHANGED <<isStreaming, streamingContent, streamingSources, error, sends>>
  ELSE LET conv == The(activeConversation)
           userMessage == Msg(LocalId(NextSlot, 0), conv.id, "user", content, <<>>)
           request == [conversation_id |-> conv.id,
                       message |-> content,
                       mode |-> chatMode,
                       workspace_id |-> IF chatMode = "workspace" THEN activeWorkspace ELSE None]
       IN /\ HasSlot
          /\ messages' = Append(base, userMessage)
          /\ isStreaming' = TRUE
          /\ streamingContent' = <<>>
          /\ streamingSources' = <<>>
          /\ error' = None
          /\ sends' = [sends EXCEPT ![NextSlot] =
                         [FreeSend EXCEPT !.pc = "fetch", !.origin = origin, !.ids = 1,
                                          !.conv = activeConversation,
                                          !.userMessage = userMessage,
                                          !.history = Append(base, userMessage),
                                          !.request = request, !.prior = error]]

\* A catch block that rolls the optimistic insert back.
SendCatchRetracts(i, message) ==
  /\ isStreaming' = FALSE
  /\ error' = Some(message)
  /\ messages' = SelectSeq(messages, LAMBDA m : m.id # sends[i].userMessage.id)
  /\ sends' = [sends EXCEPT ![i].pc = "done", ![i].text = <<>>, ![i].pos = 0,
                            ![i].reads = 0, ![i].buffer = <<>>, ![i].pending = <<>>,
                            ![i].terminal = TRUE, ![i].thrown = Some(message),
                            ![i].prior = None]
  /\ UNCHANGED <<activeConversation, chatMode, activeWorkspace, workspaces,
                 streamingContent, streamingSources, regen, chat, loads, edit, citVars>>

\* A catch block that issues the request again.
SendCatchRetries(i, message) ==
  /\ isStreaming' = TRUE
  /\ error' = Some(message)
  /\ sends' = [sends EXCEPT ![i].pc = "fetch", ![i].text = <<>>, ![i].pos = 0,
                            ![i].reads = 0, ![i].buffer = <<>>, ![i].pending = <<>>,
                            ![i].thrown = Some(message), ![i].prior = None]
  /\ UNCHANGED <<activeConversation, messages, chatMode, activeWorkspace, workspaces,
                 streamingContent, streamingSources, regen, chat, loads, edit, citVars>>

\* The catch block of sendMessage, then the trailing loadConversations.  The
\* generator is finished with: its response, position and buffers are dropped.
SendCatch(i, message) ==
  /\ isStreaming' = FALSE
  /\ error' = Some(message)
  /\ sends' = [sends EXCEPT ![i].pc = "done", ![i].text = <<>>, ![i].pos = 0,
                            ![i].reads = 0, ![i].buffer = <<>>, ![i].pending = <<>>,
                            ![i].terminal = TRUE, ![i].thrown = Some(message),
                            ![i].prior = None]
  /\ UNCHANGED <<activeConversation, messages, chatMode, activeWorkspace, workspaces,
                 streamingContent, streamingSources, regen, chat, loads, edit, citVars>>

\* The message of the Error api.chat.send throws for a non-success response:
\* the body's detail; "" when the body parses but carries no detail (the
\* message of new Error(undefined)); "Stream failed" when it does not parse.
NotOkBodies == {"detail", "nodetail", "unparsable"}
NotOkMessage(body) ==
  CASE body = "detail" -> ServerDetail
    [] body = "nodetail" -> <<>>
    [] OTHER -> StreamFailed

\* What api.chat.send may throw without reading a body: fetch rejects, or the
\* response is ok and has no body.
FetchFailures == {FailedToFetch, NoResponseBody}

SendFetchFailed(i, failures) ==
  /\ sends[i].pc = "fetch"
  /\ \E message \in failures : SendCatch(i, message)

\* The response is not ok: api.chat.send awaits res.json() on its body.
SendFetchNotOk(i, bodies) ==
  /\ sends[i].pc = "fetch"
  /\ \E body \in bodies : sends' = [sends EXCEPT ![i].pc = "notok", ![i].response = body,
                                                  ![i].prior = None]
  /\ UNCHANGED <<storeVars, regen, chat, loads, edit, citVars>>

\* res.json() has settled: the Error is thrown into sendMessage's catch block.
SendNotOkThrown(i) ==
  /\ sends[i].pc = "notok"
  /\ SendCatch(i, NotOkMessage(sends[i].response))

\* The response is ok: the reader is taken and the first read is issued.
SendFetchOk(i, texts) ==
  /\ sends[i].pc = "fetch"
  /\ \E text \in texts : sends' = [sends EXCEPT ![i].pc = "read", ![i].text = text,
                                                 ![i].prior = None]
  /\ UNCHANGED <<storeVars, regen, chat, loads, edit, citVars>>

\* One pass of the decoder's while loop after a read that returned `fragment`,
\* up to its first yield or, when no line was completed, the next read.
Decoded(s, fragment) ==
  LET d == DecodeFragment(s.buffer, fragment)
  IN [s EXCEPT !.pos = s.pos + Len(fragment),
               !.buffer = d.buffer,
               !.pending = d.yielded,
               !.pc = IF d.yielded = <<>> THEN "read" ELSE "yield"]

\* The lengths the next read may return: any, or (aligned) up to a line break
\* or the end of the body.
ReadLengths(i, aligned) ==
  LET text == sends[i].text
      pos == sends[i].pos
  IN {n \in 1..(Len(text) - pos) : ~aligned \/ pos + n = Len(text) \/ text[pos + n] = NL}

\* reader.read() returns the next characters of the response body.
SendRead(i, aligned) ==
  /\ sends[i].pc = "read"
  /\ \E n \in ReadLengths(i, aligned) :
       sends' = [sends EXCEPT ![i] =
                   Decoded(sends[i], SubSeq(sends[i].text, sends[i].pos + 1, sends[i].pos + n))]
  /\ UNCHANGED <<storeVars, regen, chat, loads, edit, citVars>>

\* reader.read() returns one whole line that the server produces now.
SendReadLine(i, lines) ==
  /\ sends[i].pc = "read"
  /\ sends[i].reads < MaxConcLines
  /\ \E line \in lines :
       sends' = [sends EXCEPT ![i] = [Decoded(sends[i], line \o <<NL>>) EXCEPT
                                        !.pos = 0, !.reads = sends[i].reads + 1]]
  /\ UNCHANGED <<storeVars, regen, chat, loads, edit, citVars>>

\* A close that decodes the residual text as one more line.
SendClosedFlushes(i) ==
  /\ sends[i].pc = "read"
  /\ sends[i].pos = Len(sends[i].text)
  /\ LET ys == DecodeLines(<<sends[i].buffer>>)
     IN sends' = [sends EXCEPT ![i].buffer = <<>>, ![i].pending = ys,
                               ![i].pc = IF ys = <<>> THEN "done" ELSE "yield"]
  /\ UNCHANGED <<storeVars, regen, chat, loads, edit, citVars>>

\* reader.read() returns done: the generator returns, the for-await loop ends
\* and sendMessage refreshes the conversation list and returns.
SendClosed(i) ==
  /\ sends[i].pc = "read"
  /\ sends[i].pos = Len(sends[i].text)
  /\ sends' = [sends EXCEPT ![i].pc = "done"]
  /\ UNCHANGED <<storeVars, regen, chat, loads, edit, citVars>>

\* reader.read() rejects (the connection broke).
SendReadFailed(i) ==
  /\ sends[i].pc = "read"
  /\ SendCatch(i, FailedToFetch)

\* The generator of api.chat.send drained by a consumer that collects what it
\* yields (in pending): one read of any length and the pass of the while loop
\* over it.
DecoderRead(i) ==
  /\ sends[i].pc = "read"
  /\ sends[i].origin = "decoder"
  /\ \E n \in ReadLengths(i, FALSE) :
       LET d == DecodeFragment(sends[i].buffer,
                               SubSeq(sends[i].text, sends[i].pos + 1, sends[i].pos + n))
       IN sends' = [sends EXCEPT ![i].pos = @ + n,
                                 ![i].buffer = d.buffer,
                                 ![i].pending = @ \o d.yielded]
  /\ UNCHANGED <<storeVars, regen, chat, loads, edit, citVars>>

\* reader.read() returns done: the loop breaks and the residual text is dropped.
DecoderClosed(i) ==
  /\ sends[i].pc = "read"
  /\ sends[i].origin = "decoder"
  /\ sends[i].pos = Len(sends[i].text)
  /\ sends' = [sends EXCEPT ![i].pc = "done", ![i].buffer = <<>>]
  /\ UNCHANGED <<storeVars, regen, chat, loads, edit, citVars>>

\* An assistant message that ignores the server's identifier.
AssistantMessageLocalId(i, chunk) ==
  Msg(LocalId(i, sends[i].ids),
      The(sends[i].conv).id,
      "assistant",
      streamingContent,
      OrElseList(chunk.sources, <<>>))

\* The assistant message built on a done event.
AssistantMessage(i, chunk) ==
  Msg(IF chunk.message_id = None \/ chunk.message_id = Some("")
        THEN LocalId(i, sends[i].ids) ELSE The(chunk.message_id),
      The(sends[i].conv).id,
      "assistant",
      streamingContent,
      OrElseList(chunk.sources, <<>>))

\* A chunk handler that puts the fragment in front of the buffer.
OnChunkPrepends(i, chunk) ==
  /\ streamingContent' = The(chunk.content) \o streamingContent
  /\ UNCHANGED <<messages, isStreaming, streamingSources, error>>

\* The store's update for a chunk event with content.
OnChunk(i, chunk) ==
  /\ streamingContent' = streamingContent \o The(chunk.content)
  /\ UNCHANGED <<messages, isStreaming, streamingSources, error>>

\* A done handler that puts the assistant message in front of the list.
OnDonePrepends(i, chunk) ==
  /\ messages' = <<AssistantMessage(i, chunk)>> \o messages
  /\ isStreaming' = FALSE
  /\ streamingContent' = <<>>
  /\ streamingSources' = OrElseList(chunk.sources, <<>>)
  /\ UNCHANGED error

\* The store's update for a done event.
OnDone(i, chunk) ==
  /\ messages' = Append(messages, AssistantMessage(i, chunk))
  /\ isStreaming' = FALSE
  /\ streamingContent' = <<>>
  /\ streamingSources' = OrElseList(chunk.sources, <<>>)
  /\ UNCHANGED error

\* An error handler that reports the error and leaves the store streaming.
OnErrorKeepsStreaming(i, chunk) ==
  /\ error' = Some(OrElse(chunk.content, GenericStreamError))
  /\ UNCHANGED <<messages, isStreaming, streamingContent, streamingSources>>

\* The store's update for an error event.
OnError(i, chunk) ==
  /\ isStreaming' = FALSE
  /\ error' = Some(OrElse(chunk.content, GenericStreamError))
  /\ UNCHANGED <<messages, streamingContent, streamingSources>>

\* The body of the for-await loop for one yielded value, then the generator
\* resumed up to its next yield or read.
SendEvent(i) ==
  /\ sends[i].pc = "yield"
  /\ LET chunk == Head(sends[i].pending)
         rest == Tail(sends[i].pending)
     IN /\ chunk.json = "object"
        /\ sends' = [sends EXCEPT ![i].pending = rest,
                                  ![i].pc = IF rest = <<>> THEN "read" ELSE "yield",
                                  ![i].ids = IF chunk.type = Some("done")
                                                /\ (chunk.message_id = None
                                                    \/ chunk.message_id = Some(""))
                                             THEN @ + 1 ELSE @,
                                  ![i].terminal = @ \/ chunk.type \in {Some("done"), Some("error")}]
        /\ IF chunk.type = Some("chunk") /\ chunk.content # None /\ chunk.content # Some(<<>>)
             THEN OnChunk(i, chunk)
           ELSE IF chunk.type = Some("done") THEN OnDone(i, chunk)
           ELSE IF chunk.type = Some("error") THEN OnError(i, chunk)
           ELSE UNCHANGED <<messages, isStreaming, streamingContent, streamingSources,
                            error>>
  /\ UNCHANGED <<activeConversation, chatMode, activeWorkspace, workspaces, regen, chat,
                 loads, edit, citVars>>

\* The yielded value is null: chunk.type throws a TypeError, caught by sendMessage.
SendEventThrows(i) ==
  /\ sends[i].pc = "yield"
  /\ Head(sends[i].pending).json = "null"
  /\ SendCatch(i, NullTypeError)

\* sendMessage has returned; its caller goes on.
SendReturn(i) ==
  /\ sends[i].pc = "done"
  /\ sends' = [sends EXCEPT ![i] = SpentSend]
  /\ Resume(sends[i].origin)
  /\ UNCHANGED <<storeVars, loads, citVars>>

\* ----------------------------------------------------- regenerateLastResponse

RECURSIVE WithoutId(_, _)
WithoutId(msgs, id) ==
  IF msgs = <<>> THEN <<>>
  ELSE IF Head(msgs).id = id THEN WithoutId(Tail(msgs), id)
  ELSE <<Head(msgs)>> \o WithoutId(Tail(msgs), id)

UserIndexes(msgs) == {k \in 1..Len(msgs) : msgs[k].role = "user"}

\* The trailing message is an assistant reply with a user message before it.
Regenerable(msgs) ==
  /\ msgs # <<>>
  /\ Last(msgs).role = "assistant"
  /\ UserIndexes(msgs) # {}

LastUser(msgs) == msgs[CHOOSE k \in UserIndexes(msgs) : \A j \in UserIndexes(msgs) : j <= k]

\* POST /chat/conversations/{id}/regenerate, for a conversation holding msgs:
\* the trailing assistant reply is deleted and the user message before it is
\* returned; without such a reply the server deletes nothing and returns no
\* user message.
RegenerateResult(msgs) ==
  IF Regenerable(msgs)
  THEN [deleted_message_id |-> Last(msgs).id, last_user_message |-> Some(LastUser(msgs))]
  ELSE [deleted_message_id |-> "", last_user_message |-> None]

\* regenerateLastResponse up to the await of the request.
RegenStart ==
  /\ regen.pc = "idle"
  /\ activeConversation # None
  /\ regen' = [IdleRegen EXCEPT !.pc = "request", !.conv = activeConversation,
                                !.snapshot = messages]
  /\ UNCHANGED <<storeVars, sends, chat, loads, edit, citVars>>

\* The request fails: the catch block.
RegenFailed ==
  /\ regen.pc = "request"
  /\ error' = Some(ServerDetail)
  /\ regen' = IdleRegen
  /\ UNCHANGED <<activeConversation, messages, chatMode, activeWorkspace, workspaces, isStreaming,
                 streamingContent, streamingSources, sends, chat, loads, edit, citVars>>

\* The request succeeds: the deleted message is filtered out of the list read
\* before the await, and sendMessage is called with the recovered content.
RegenResponded ==
  /\ regen.pc = "request"
  /\ LET result == RegenerateResult(regen.snapshot)
     IN IF result.last_user_message # None
        THEN /\ regen' = IF activeConversation = None THEN IdleRegen
                         ELSE [regen EXCEPT !.pc = "send",
                                            !.deleted = result.deleted_message_id,
                                            !.recovered = Some(The(result.last_user_message).content)]
             /\ SendMessage(The(result.last_user_message).content, "regenerate",
                            WithoutId(regen.snapshot, result.deleted_message_id))
        ELSE /\ regen' = IdleRegen
             /\ UNCHANGED <<messages, isStreaming, streamingContent, streamingSources,
                            error, sends>>
  /\ UNCHANGED <<activeConversation, chatMode, activeWorkspace, workspaces, chat, loads,
                 edit, citVars>>

\* ---------------------------------------------------------- useChat.send

\* useChat.send up to its first suspension: the guard, then createConversation's
\* request when no conversation is selected, sendMessage otherwise.
ChatSend(content) ==
  /\ chat.pc = "idle"
  /\ Trim(content) # <<>>
  /\ ~isStreaming
  /\ IF activeConversation = None
     THEN /\ chat' = [IdleChat EXCEPT !.pc = "create", !.content = content,
                                      !.conv = Some(Conv("", chatMode))]
          /\ UNCHANGED <<messages, isStreaming, streamingContent, streamingSources,
                         error, sends>>
     ELSE /\ chat' = [IdleChat EXCEPT !.pc = "send", !.content = content]
          /\ SendMessage(content, "useChat", messages)
  /\ UNCHANGED <<activeConversation, chatMode, activeWorkspace, workspaces, regen, loads,
                 edit, citVars>>

\* A createConversation whose conversation is always a general one.
ChatCreatedGeneral ==
  /\ chat.pc = "create"
  /\ LET conv == Conv(CreatedId, "general")
     IN /\ activeConversation' = Some(conv)
        /\ chat' = [chat EXCEPT !.pc = "load", !.conv = Some(conv)]
  /\ messages' = <<>>
  /\ streamingContent' = <<>>
  /\ streamingSources' = <<>>
  /\ UNCHANGED <<chatMode, activeWorkspace, workspaces, isStreaming, error, sends, regen,
                 loads, edit, citVars>>

\* createConversation: the server answers with the new conversation, the list
\* of conversations is refreshed, and setActiveConversation selects it and
\* requests its messages.
ChatCreated ==
  /\ chat.pc = "create"
  /\ LET conv == Conv(CreatedId, The(chat.conv).mode)
     IN /\ activeConversation' = Some(conv)
        /\ chat' = [chat EXCEPT !.pc = "load", !.conv = Some(conv)]
  /\ messages' = <<>>
  /\ streamingContent' = <<>>
  /\ streamingSources' = <<>>
  /\ UNCHANGED <<chatMode, activeWorkspace, workspaces, isStreaming, error, sends, regen,
                 loads, edit, citVars>>

\* The messages of the new conversation arrive; the 100 ms delay starts.
ChatLoaded ==
  /\ chat.pc = "load"
  /\ messages' = <<>>
  /\ chat' = [chat EXCEPT !.pc = "delay"]
  /\ UNCHANGED <<activeConversation, chatMode, activeWorkspace, workspaces, isStreaming,
                 streamingContent, streamingSources, error, sends, regen,
                 loads, edit, citVars>>

\* A request of createConversation fails: useChat.send rejects.
ChatAborted ==
  /\ chat.pc \in {"create", "load"}
  /\ chat' = IdleChat
  /\ UNCHANGED <<storeVars, sends, regen, loads, edit, citVars>>

\* After the delay: sendMessage if a conversation is selected.
ChatDelayElapsed ==
  /\ chat.pc = "delay"
  /\ chat' = IF activeConversation = None THEN IdleChat ELSE [chat EXCEPT !.pc = "send"]
  /\ SendMessage(chat.content, "useChat", messages)
  /\ UNCHANGED <<activeConversation, chatMode, activeWorkspace, workspaces, regen, loads,
                 edit, citVars>>

\* ------------------------------------------------ other store operations

\* setActiveConversation(conv) up to the await of the messages, for a
\* conversation other than the selected one.
SetActiveConversation(conv) ==
  /\ conv.id \notin loads
  /\ activeConversation # Some(conv)
  /\ activeConversation' = Some(conv)
  /\ messages' = <<>>
  /\ streamingContent' = <<>>
  /\ streamingSources' = <<>>
  /\ loads' = loads \cup {conv.id}
  /\ UNCHANGED <<chatMode, activeWorkspace, workspaces, isStreaming, error, sends, regen,
                 chat, edit, citVars>>

\* setActiveConversation: the messages arrive.
MessagesLoaded(cid) ==
  /\ cid \in loads
  /\ \E list \in ServerMessages(cid) : messages' = list
  /\ loads' = loads \ {cid}
  /\ UNCHANGED <<activeConversation, chatMode, activeWorkspace, workspaces, isStreaming,
                 streamingContent, streamingSources, error, sends, regen,
                 chat, edit, citVars>>

\* setActiveConversation: the request of the messages fails.
MessagesLoadFailed(cid) ==
  /\ cid \in loads
  /\ loads' = loads \ {cid}
  /\ UNCHANGED <<storeVars, sends, regen, chat, edit, citVars>>

\* deleteWorkspace(id), once the server has deleted it and the lists have been
\* refreshed.
DeleteWorkspace(id) ==
  /\ id \in workspaces
  /\ workspaces' = workspaces \ {id}
  /\ activeWorkspace' = IF activeWorkspace = Some(id) THEN None ELSE activeWorkspace
  /\ UNCHANGED <<activeConversation, messages, chatMode, isStreaming, streamingContent,
                 streamingSources, error, procVars, citVars>>

\* sendMessage called on the store, by no other operation.
SendMessageDirect(content) ==
  /\ SendMessage(content, "store", messages)
  /\ UNCHANGED <<activeConversation, chatMode, activeWorkspace, workspaces, regen, chat,
                 loads, edit, citVars>>

\* ------------------------------------------------------------------- edit

\* The Edit button of the k-th message, shown on user messages, and the text
\* then typed in the textarea.
EditOpen(k, text) ==
  /\ edit.pc = "idle"
  /\ ~edit.editing
  /\ activeConversation # None
  /\ k \in UserIndexes(messages)
  /\ edit' = [IdleEdit EXCEPT !.id = messages[k].id, !.original = messages[k].content,
                              !.editing = TRUE, !.editContent = text]
  /\ UNCHANGED <<storeVars, sends, regen, chat, loads, citVars>>

\* A handleEditSubmit that calls onEdit whatever the text is.
EditSubmitAlways ==
  /\ edit.editing
  /\ edit' = [edit EXCEPT !.editing = FALSE,
                          !.pc = IF activeConversation = None THEN "send" ELSE "put",
                          !.content = Trim(edit.editContent),
                          !.conv = activeConversation,
                          !.streaming = isStreaming,
                          !.before = messages]
  /\ UNCHANGED <<storeVars, sends, regen, chat, loads, citVars>>

\* handleEditSubmit: onEdit is called when the trimmed text differs from the
\* message's content; handleEdit then calls editMessage, which returns at once
\* without an active conversation and awaits its PUT request otherwise.
EditSubmit ==
  /\ edit.editing
  /\ edit' = IF Trim(edit.editContent) # edit.original
             THEN [edit EXCEPT !.editing = FALSE,
                               !.pc = IF activeConversation = None THEN "send" ELSE "put",
                               !.content = Trim(edit.editContent),
                               !.conv = activeConversation,
                               !.streaming = isStreaming,
                               !.before = messages]
             ELSE [edit EXCEPT !.editing = FALSE]
  /\ UNCHANGED <<storeVars, sends, regen, chat, loads, citVars>>

\* The server has replaced the content: editMessage requests the messages.
EditPutOk ==
  /\ edit.pc = "put"
  /\ ServerKnows(The(edit.conv).id, edit.id)
  /\ edit' = [edit EXCEPT !.pc = "get"]
  /\ UNCHANGED <<storeVars, sends, regen, chat, loads, citVars>>

\* A request of editMessage fails: its catch block.
EditFailed ==
  /\ edit.pc \in {"put", "get"}
  /\ error' = Some(ServerDetail)
  /\ edit' = [edit EXCEPT !.pc = "send", !.failed = TRUE]
  /\ UNCHANGED <<activeConversation, messages, chatMode, activeWorkspace, workspaces, isStreaming,
                 streamingContent, streamingSources, sends, regen, chat, loads, citVars>>

\* A reload that drops the messages after the edited one.
EditGetOkTruncates ==
  /\ edit.pc = "get"
  /\ messages' = <<EditedList(StoredExchange(The(edit.conv).id), edit.id, edit.content)[1]>>
  /\ edit' = [edit EXCEPT !.pc = "send", !.reloaded = TRUE]
  /\ UNCHANGED <<activeConversation, chatMode, activeWorkspace, workspaces, isStreaming,
                 streamingContent, streamingSources, error, sends, regen, chat, loads,
                 citVars>>

\* The messages arrive: editMessage sets the list and returns.
EditGetOk ==
  /\ edit.pc = "get"
  /\ messages' = EditedList(StoredExchange(The(edit.conv).id), edit.id, edit.content)
  /\ edit' = [edit EXCEPT !.pc = "send", !.reloaded = TRUE]
  /\ UNCHANGED <<activeConversation, chatMode, activeWorkspace, workspaces, isStreaming,
                 streamingContent, streamingSources, error, sends, regen, chat, loads,
                 citVars>>

\* handleEdit goes on to send(content): useChat.send with the isStreaming and
\* activeConversation of the render the edit was submitted in.
EditSend ==
  /\ edit.pc = "send"
  /\ IF Trim(edit.content) = <<>> \/ edit.streaming \/ activeConversation = None
     THEN /\ edit' = [edit EXCEPT !.pc = "idle"]
          /\ UNCHANGED <<messages, isStreaming, streamingContent, streamingSources,
                         error, sends>>
     ELSE /\ edit' = [edit EXCEPT !.pc = "stream"]
          /\ SendMessage(edit.content, "edit", messages)
  /\ UNCHANGED <<activeConversation, chatMode, activeWorkspace, workspaces, regen, chat,
                 loads, citVars>>

SetChatMode(mode) ==
  /\ chatMode' = mode
  /\ activeWorkspace' = IF mode = "general" THEN None ELSE activeWorkspace
  /\ UNCHANGED <<activeConversation, messages, workspaces, isStreaming, streamingContent,
                 streamingSources, error, procVars, citVars>>

SetActiveWorkspace(ws) ==
  /\ activeWorkspace' = ws
  /\ activeConversation' = None
  /\ messages' = <<>>
  /\ chatMode' = IF ws # None THEN "workspace" ELSE chatMode
  /\ UNCHANGED <<workspaces, isStreaming, streamingContent, streamingSources, error,
                 procVars, citVars>>

ClearError ==
  /\ error # None
  /\ error' = None
  /\ UNCHANGED <<activeConversation, messages, chatMode, activeWorkspace, workspaces, isStreaming,
                 streamingContent, streamingSources, procVars, citVars>>

\* --------------------------------------------------------- specifications

\* A chat operation is invoked (a click, a key, a call on the store).
InvokeChat ==
  \/ \E content \in Contents : ChatSend(content)
  \/ RegenStart

\* A conversation of the sidebar is selected.
InvokeSelect(convs) == \E conv \in convs : SetActiveConversation(conv)

\* The mode or the workspace is changed, or the error banner dismissed.
InvokeMode ==
  \/ \E mode \in Modes : SetChatMode(mode)
  \/ \E ws \in {None} \cup {Some(w) : w \in workspaces} : SetActiveWorkspace(ws)
  \/ \E id \in WorkspaceIds : DeleteWorkspace(id)
  \/ ClearError

\* sendMessage is called on the store.
InvokeStore(contents) == \E content \in contents : SendMessageDirect(content)

\* A message is opened for editing and its text changed.
InvokeEdit == \E k \in 1..Len(messages) : \E text \in EditTexts : EditOpen(k, text)

\* handleEdit takes its next step.
ProceedEdit ==
  \/ EditPutOk
  \/ EditFailed
  \/ EditGetOk
  \/ EditSend

\* A send in progress takes its next step.
ProceedSend(texts, failures) ==
  \/ \E i \in Slots : SendFetchFailed(i, failures)
  \/ \E i \in Slots : SendFetchOk(i, texts)
  \/ \E i \in Slots : SendClosed(i)
  \/ \E i \in Slots : SendReadFailed(i)
  \/ \E i \in Slots : SendEvent(i)
  \/ \E i \in Slots : SendReturn(i)

\* The server answers a send request with a non-success status.
ProceedNotOk(bodies) ==
  \/ \E i \in Slots : SendFetchNotOk(i, bodies)
  \/ \E i \in Slots : SendNotOkThrown(i)

\* useChat.send takes its next step after an await.
ProceedChat ==
  \/ ChatCreated
  \/ ChatLoaded
  \/ ChatAborted
  \/ ChatDelayElapsed

\* The server answers a regenerate request.
ProceedRegen ==
  \/ RegenFailed
  \/ RegenResponded

\* The server answers a request for a conversation's messages.
ProceedLoad ==
  \/ \E cid \in ListedIds : MessagesLoaded(cid)
  \/ \E cid \in ListedIds : MessagesLoadFailed(cid)

\* No invocation of sendMessage has been made yet.
Unsent == \A i \in Slots : sends[i].pc = "free"

\* One control flow up to the end of its first send cycle: an operation is
\* invoked only when none is in progress; each read returns whole lines.
Next ==
  \/ Quiescent /\ Unsent /\ InvokeChat
  \/ Quiescent /\ Unsent /\ InvokeSelect({Conv("c1", "general")})
  \/ ProceedSend(EventTexts, FetchFailures)
  \/ ProceedNotOk(NotOkBodies)
  \/ ProceedChat
  \/ ProceedRegen
  \/ ProceedLoad
  \/ \E i \in Slots : SendRead(i, TRUE)
Spec == Init /\ [][Next]_vars

\* One send through useChat.send whose response body is cut into reads at any
\* place.
NextWire ==
  \/ Quiescent /\ Unsent /\ \E content \in Contents : ChatSend(content)
  \/ ProceedSend(WireTexts, {FailedToFetch})
  \/ ProceedChat
  \/ \E i \in Slots : SendRead(i, FALSE)
  \/ \E i \in Slots : SendEventThrows(i)
SpecWire == Init /\ [][NextWire]_vars

\* Operations invoked at any time; the server produces the response body line
\* by line, and each read returns one line.
NextConc ==
  \/ InvokeChat
  \/ InvokeSelect({Conv("c1", "general")})
  \/ ProceedSend({<<>>}, {FailedToFetch})
  \/ ProceedChat
  \/ ProceedRegen
  \/ ProceedLoad
  \/ \E i \in Slots : SendReadLine(i, ConcLines)
SpecConc == Init /\ [][NextConc]_vars

\* The store's operations called one at a time, in any mode and workspace, up
\* to the end of the first send cycle.
StoreTexts ==
  {JoinLines(<<EventLine(ChunkA), EventLine(DoneFull)>>), JoinLines(<<EventLine(ErrorX)>>)}
NextStore ==
  \/ Quiescent /\ Unsent /\ InvokeMode
  \/ Quiescent /\ Unsent /\ InvokeSelect(ListedConversations)
  \/ Quiescent /\ Unsent /\ \E content \in Contents \cup BlankContents : ChatSend(content)
  \/ Quiescent /\ Unsent /\ InvokeStore(Contents \cup BlankContents)
  \/ ProceedSend(StoreTexts, {FailedToFetch})
  \/ ProceedChat
  \/ ProceedLoad
  \/ \E i \in Slots : SendRead(i, TRUE)
SpecStore == Init /\ [][NextStore]_vars

\* One edit of a message of a loaded conversation, up to the end of the send
\* cycle it runs.
NextEdit ==
  \/ Quiescent /\ Unsent /\ InvokeSelect({Conv("c1", "general")})
  \/ Quiescent /\ Unsent /\ edit.id = "" /\ InvokeEdit
  \/ EditSubmit
  \/ ProceedEdit
  \/ ProceedSend(EventTexts, {FailedToFetch})
  \/ ProceedLoad
  \/ \E i \in Slots : SendRead(i, TRUE)
SpecEdit == Init /\ [][NextEdit]_vars

\* Successive operations, each invoked when the one before has ended.
SeqTexts ==
  {JoinLines(<<EventLine(ChunkA), EventLine(DoneBare)>>), JoinLines(<<EventLine(ErrorX)>>)}
NextSeq ==
  \/ Quiescent /\ InvokeChat
  \/ Quiescent /\ Unsent /\ InvokeSelect({Conv("c1", "general")})
  \/ ProceedSend(SeqTexts, {FailedToFetch})
  \/ ProceedChat
  \/ ProceedRegen
  \/ ProceedLoad
  \/ \E i \in Slots : SendRead(i, TRUE)
SpecSeq == Init /\ [][NextSeq]_vars

\* Conversations selected, and the mode and workspace changed, at any time,
\* whatever loads are pending; every load succeeds.
NextSelect ==
  \/ InvokeSelect(ListedConversations)
  \/ \E cid \in ListedIds : MessagesLoaded(cid)
  \/ \E mode \in Modes : SetChatMode(mode)
  \/ \E w \in workspaces : SetActiveWorkspace(Some(w))
  \/ \E id \in WorkspaceIds : DeleteWorkspace(id)
SpecSelect == Init /\ [][NextSelect]_vars

\* The decoder alone, on every text of DecoderTexts cut into reads at any place.
InitDecode ==
  /\ Init!1 /\ Init!2 /\ Init!3 /\ Init!4 /\ Init!5 /\ Init!6 /\ Init!7 /\ Init!8
  /\ Init!10 /\ Init!11 /\ Init!12 /\ Init!13 /\ Init!14 /\ Init!15 /\ Init!16
  /\ \E text \in DecoderTexts :
       sends = [i \in Slots |-> IF i = 1
                                THEN [FreeSend EXCEPT !.pc = "read", !.origin = "decoder",
                                                      !.text = text]
                                ELSE FreeSend]
NextDecode ==
  \/ \E i \in Slots : DecoderRead(i)
  \/ \E i \in Slots : DecoderClosed(i)
SpecDecode == InitDecode /\ [][NextDecode]_vars

\* SourceCitation rendered for every list of sources.
SourceLists == UNION {[1..n -> {Source(c) : c \in Confidences}] : n \in 0..MaxSources}
InitConf ==
  /\ Init!1 /\ Init!2 /\ Init!3 /\ Init!4 /\ Init!5 /\ Init!6 /\ Init!7 /\ Init!8
  /\ Init!9 /\ Init!10 /\ Init!11 /\ Init!12 /\ Init!13 /\ Init!14
  /\ citSources \in SourceLists
  /\ citConfidence = "unrendered"
\* The component returns null for an empty list, before the aggregate is computed.
Render ==
  /\ citConfidence' = IF Len(citSources) = 0 THEN "null" ELSE OverallConfidence(citSources)
  /\ UNCHANGED <<storeVars, procVars, citSources>>
SpecConf == InitConf /\ [][Render]_vars

\* ------------------------------------------------------------- properties

\* Runs of chunk events, the response body that carries a run followed by one
\* done event, and the fragments of a run joined in order.
ChunkRuns == SeqsUpTo({ChunkA, ChunkB}, MaxLines - 1)
StreamOf(run) == JoinLines([k \in 1..Len(run) |-> EventLine(run[k])] \o <<EventLine(DoneFull)>>)
RECURSIVE Fragments(_)
Fragments(run) == IF run = <<>> THEN <<>> ELSE <<Head(run)[3]>> \o Fragments(Tail(run))

\* C1: when the response body is a run of chunk events followed by one done
\* event, however the reads cut it, the send ends with the user message followed
\* by one assistant message whose content is the chunk fragments joined in the
\* order received.
C1_ContentIsConcatenation ==
  \A i \in Slots : \A run \in ChunkRuns :
    (sends[i].pc = "done" /\ sends[i].text = StreamOf(run))
      => /\ messages = <<sends[i].userMessage, Last(messages)>>
         /\ Last(messages).role = "assistant"
         /\ Last(messages).content = Fragments(run)

C1_Witness ==
  \E i \in Slots :
    /\ sends[i].pc = "done"
    /\ sends[i].text = StreamOf(<<ChunkA, ChunkB>>)
    /\ Last(messages).role = "assistant"
    /\ Last(messages).content = <<"a", "b">>

\* The response body has an error event on one of its lines.
HasErrorEvent(text) ==
  \E line \in {EventLine(ErrorX), EventLine(ErrorBare)} :
    \E k \in 1..(Len(text) - Len(line) + 1) : SubSeq(text, k, k + Len(line) - 1) = line

\* C2: a send whose stream contained an error event, at any position, ends
\* with no assistant message appended: the user message is the last one.
C2_ErrorCommitsNothing ==
  \A i \in Slots :
    (sends[i].pc = "done" /\ HasErrorEvent(sends[i].text))
      => messages = sends[i].history

\* A send whose stream has reached neither done nor error.
Streaming(i) == InFlight(i) /\ ~sends[i].terminal

\* C3: at most one stream is in flight: no send has started while another had
\* reached neither done nor error.
C3_OneStreamInFlight ==
  \A i, j \in Slots : (Streaming(i) /\ Streaming(j)) => i = j

\* C4: once sendMessage has finished, whatever the transport did, isStreaming
\* is false.
C4_FinishedSendLeavesStreaming ==
  \A i \in Slots : sends[i].pc = "done" => ~isStreaming

\* C5: after a send has failed (the store shows its error), the messages that
\* preceded the send and its user message are still the first messages of the
\* list, in the same order.
C5_FailureKeepsHistory ==
  \A i \in Slots :
    (sends[i].pc \in {"fetch", "read", "yield", "done"} /\ error # None)
      => IsPrefix(sends[i].history, messages)

C5_Witness ==
  \E i \in Slots :
    /\ sends[i].pc = "done"
    /\ error # None
    /\ Len(sends[i].history) = 3
    /\ messages = sends[i].history
    /\ Last(messages) = sends[i].userMessage

\* The reference rule: high when the high sources are at least half of the
\* sources of known confidence, else medium when a source is medium, else low;
\* undefined when no source has a known confidence.
ReferenceConfidence(srcs) ==
  LET known == CountWhere(srcs, "high") + CountWhere(srcs, "medium") + CountWhere(srcs, "low")
  IN IF known = 0 THEN "undefined"
     ELSE IF 2 * CountWhere(srcs, "high") >= known THEN "high"
     ELSE IF CountWhere(srcs, "medium") > 0 THEN "medium"
     ELSE "low"

\* C6: the aggregate confidence rendered for a list of sources is the one the
\* reference rule gives.
C6_ConfidenceIsReference ==
  (citConfidence # "unrendered" /\ citSources # <<>>)
    => citConfidence = ReferenceConfidence(citSources)

\* The user messages of msgs with the given content.
UsersSaying(msgs, content) ==
  {k \in 1..Len(msgs) : msgs[k].role = "user" /\ msgs[k].content = content}

\* C7: after a regenerate whose follow-up send has failed, the recovered user
\* content is in the list exactly once and it is the last message.
C7_RegenerateFailureKeepsOneCopy ==
  \A i \in Slots :
    (sends[i].origin = "regenerate" /\ sends[i].pc = "done" /\ error # None)
      => /\ Cardinality(UsersSaying(messages, sends[i].userMessage.content)) = 1
         /\ Last(messages).role = "user"
         /\ Last(messages).content = sends[i].userMessage.content

\* C8: regenerateLastResponse sends its request only when the last message is
\* an assistant reply with a user message before it.
C8_RegenerateChecksFirst ==
  regen.pc = "request" => Regenerable(regen.snapshot)

\* C9: once a send has failed (an error is shown and the store is no longer
\* streaming), the streaming buffer is empty.
C9_FailureClearsBuffer ==
  \A i \in Slots :
    (sends[i].pc \in {"read", "yield", "done"} /\ error # None /\ ~isStreaming)
      => streamingContent = <<>>

\* The identifiers sendMessage generates for its user messages, and all the
\* identifiers it generates.
UserLocalIds == {LocalId(i, 0) : i \in Slots}
LocalIds == {LocalId(i, k) : i \in Slots, k \in 0..(MaxLines + 1)}

\* The step in which send i handles a done event.
DoneStep(i) ==
  /\ sends[i].pc = "yield"
  /\ Head(sends[i].pending).type = Some("done")
  /\ sends'[i] # sends[i]

\* C10: the step that handles a done event appends one assistant message with
\* the event's message_id (a locally generated one when the event has none), the
\* conversation of the request and the event's sources (none when the event has
\* none), clears the buffer and ends streaming; and the user messages that
\* sendMessage created have no sources.
C10_DoneCommitsMessage ==
  /\ [][\A i \in Slots :
          DoneStep(i) =>
            LET event == Head(sends[i].pending)
                m == Last(messages')
            IN /\ messages' = Append(messages, m)
               /\ m.role = "assistant"
               /\ IF event.message_id = None
                    THEN m.id \in LocalIds \ UserLocalIds
                    ELSE m.id = The(event.message_id)
               /\ m.conversation_id = sends[i].request.conversation_id
               /\ m.sources = (IF event.sources = None THEN <<>> ELSE The(event.sources))
               /\ streamingContent' = <<>>
               /\ isStreaming' = FALSE]_vars
  /\ [](\A k \in 1..Len(messages) :
          messages[k].id \in UserLocalIds
            => messages[k].role = "user" /\ messages[k].sources = <<>>)

C10_WitnessServerId ==
  \E i \in Slots :
    /\ sends[i].pc = "done"
    /\ sends[i].text = JoinLines(<<EventLine(ChunkA), EventLine(DoneFull)>>)
    /\ Last(messages).id = "m1"
    /\ Last(messages).conversation_id = sends[i].request.conversation_id
    /\ Last(messages).sources = SourcesOf("s1")
    /\ messages[Len(messages) - 1].id \in UserLocalIds
    /\ ~isStreaming
    /\ streamingContent = <<>>

\* A send slot that holds an invocation of sendMessage past its early return.
Started(i) == sends[i].pc \notin {"free", "spent"}

\* C11: no request is issued for a content that is empty once trimmed, and no
\* user message is added for it, whichever way sendMessage was reached.
C11_BlankSendDoesNothing ==
  /\ \A i \in Slots : Started(i) => Trim(sends[i].request.message) # <<>>
  /\ \A k \in 1..Len(messages) : messages[k].id \in UserLocalIds => Trim(messages[k].content) # <<>>

\* The step in which sendMessage appends its user message and issues its request.
SendStep(i) == sends[i].pc = "free" /\ sends'[i].pc = "fetch"

\* C12: without a selected conversation, send creates a conversation whose mode
\* is the current chatMode and selects it before anything is appended or
\* requested; a request is issued and a user message appended only in a step
\* that starts and ends with the same active conversation, whose id is the
\* conversation_id of both.
C12_ConversationBeforeSend ==
  /\ [][\A i \in Slots :
          SendStep(i) =>
            /\ activeConversation # None
            /\ activeConversation' = activeConversation
            /\ sends'[i].request.conversation_id = The(activeConversation).id
            /\ messages' = Append(messages, sends'[i].userMessage)
            /\ sends'[i].userMessage.conversation_id = The(activeConversation).id]_vars
  /\ [](chat.pc \in {"create", "load", "delay"} => Unsent /\ messages = <<>>)
  /\ [](chat.pc \in {"load", "delay"} => activeConversation = Some(Conv(CreatedId, chatMode)))
  /\ [](\A k \in 1..Len(messages) :
          messages[k].id \in UserLocalIds
            => /\ activeConversation # None
               /\ messages[k].conversation_id = The(activeConversation).id)

C12_Witness ==
  \E i \in Slots :
    /\ sends[i].pc = "fetch"
    /\ chat.pc = "send"
    /\ activeConversation = Some(Conv(CreatedId, "workspace"))
    /\ sends[i].request.conversation_id = CreatedId
    /\ messages = <<sends[i].userMessage>>

\* C13: the store holds one error value, and a send clears it before its
\* request is made: while a send is streaming the store shows no error, whatever
\* error it showed when the send was started.
C13_SendClearsError ==
  \A i \in Slots : Streaming(i) => error = None

C13_Witness ==
  \E i \in Slots :
    /\ sends[i].pc = "fetch"
    /\ sends[i].prior # None
    /\ error = None

\* C14: a send whose request was answered with a non-success status ends with
\* isStreaming false, no assistant message, and an error that is the body's
\* detail when the body has one and a non-empty fallback message otherwise.
C14_NotOkReportsDetailOrFallback ==
  \A i \in Slots :
    (sends[i].pc = "done" /\ sends[i].response # "")
      => /\ ~isStreaming
         /\ messages = sends[i].history
         /\ error # None
         /\ The(error) # <<>>
         /\ sends[i].response = "detail" => error = Some(ServerDetail)

\* The step in which send i handles an error event, and the step in which its
\* catch block catches an exception.
ErrorStep(i) ==
  /\ sends[i].pc = "yield"
  /\ Head(sends[i].pending).type = Some("error")
  /\ sends'[i] # sends[i]
CatchStep(i) == sends[i].thrown = None /\ sends'[i].thrown # None

\* C15: the step that handles an error event sets the error to the event's
\* content (the generic message when it has none) and ends streaming; the step
\* that catches a thrown failure sets the error to the failure's message and
\* ends streaming; neither appends a message.
C15_ErrorsAreReported ==
  [][\A i \in Slots :
       /\ ErrorStep(i) =>
            LET event == Head(sends[i].pending)
            IN /\ error' = (IF event.content = None THEN Some(GenericStreamError)
                            ELSE event.content)
               /\ isStreaming' = FALSE
               /\ messages' = messages
       /\ CatchStep(i) =>
            /\ error' = sends'[i].thrown
            /\ isStreaming' = FALSE
            /\ messages' = messages]_vars

C15_WitnessEvent ==
  \E i \in Slots :
    /\ sends[i].pc = "done"
    /\ sends[i].text = JoinLines(<<EventLine(ChunkA), EventLine(ErrorX)>>)
    /\ sends[i].thrown = None
    /\ error = Some(<<"x">>)
    /\ ~isStreaming
    /\ messages = sends[i].history

\* The edited list: as long as the list before the edit, each message in its
\* place, the edited one with the new content.
IsEdited(before, after, id, content) ==
  /\ Len(after) = Len(before)
  /\ \A k \in 1..Len(before) :
       after[k] = IF before[k].id = id THEN [before[k] EXCEPT !.content = content]
                  ELSE before[k]

\* C16: an edit with new content runs one send cycle with the edited content;
\* once the list has been reloaded it holds every message it held before the
\* edit, the edited one with the new content, followed by the user message of
\* the send cycle and then by assistant messages only.
C16_EditKeepsFollowingMessages ==
  /\ Cardinality({i \in Slots : Started(i)}) <= 1
  /\ edit.pc = "stream" => \E i \in Slots : Started(i) /\ sends[i].origin = "edit"
  /\ \A i \in Slots :
       (Started(i) /\ sends[i].origin = "edit")
         => /\ sends[i].request.message = edit.content
            /\ sends[i].userMessage.content = edit.content
            /\ IsPrefix(sends[i].history, messages)
            /\ \A k \in (Len(sends[i].history) + 1)..Len(messages) :
                 messages[k].role = "assistant"
            /\ edit.reloaded =>
                 /\ IsEdited(edit.before, Front(sends[i].history), edit.id, edit.content)
                 /\ Last(sends[i].history) = sends[i].userMessage

C16_Witness ==
  \E i \in Slots :
    /\ sends[i].pc = "done"
    /\ sends[i].origin = "edit"
    /\ edit.reloaded
    /\ Len(messages) = 4
    /\ messages[1] = [StoredExchange("c1")[1] EXCEPT !.content = <<"q">>]
    /\ messages[2] = StoredExchange("c1")[2]
    /\ messages[3] = sends[i].userMessage
    /\ messages[4].role = "assistant"

\* The step that submits an edit whose trimmed text is the message's content.
IdenticalSubmit ==
  /\ edit.editing
  /\ ~edit'.editing
  /\ Trim(edit.editContent) = edit.original

\* C17 as stated: submitting an edit whose content is the message's content
\* leaves the message list as it is and starts handleEdit, whose send cycle
\* follows.
C17_IdenticalEditStillSends ==
  [][IdenticalSubmit => messages' = messages /\ edit'.pc # "idle"]_vars

\* C17 amended: submitting an edit whose content is the message's content does
\* nothing but close the textarea: no request, no send cycle, and the store is
\* left as it is.
C17_IdenticalEditDoesNothing ==
  [][IdenticalSubmit =>
       /\ edit'.pc = "idle"
       /\ UNCHANGED <<storeVars, sends, regen, chat, loads>>]_vars

C17_Witness ==
  /\ edit.id # ""
  /\ ~edit.editing
  /\ edit.pc = "idle"
  /\ edit.editContent = <<"p", SP>>
  /\ edit.original = <<"p">>
  /\ messages = StoredExchange("c1")
  /\ Unsent

\* C18: a request carries a workspace_id exactly when its mode is workspace.
C18_WorkspaceIdIffWorkspaceMode ==
  \A i \in Slots :
    Started(i) => (sends[i].request.workspace_id # None <=> sends[i].request.mode = "workspace")

\* C19: the mode of a request is the mode of the conversation it is sent in.
C19_RequestModeIsConversationMode ==
  \A i \in Slots :
    Started(i) => sends[i].request.mode = The(sends[i].conv).mode

\* C20: while a send is streaming, in a step that starts no other send, the
\* buffer only grows: its value before the step is a prefix of its value after.
C20_BufferOnlyGrows ==
  [][\A i \in Slots :
       (/\ Streaming(i)
        /\ InFlight(i)' /\ ~sends'[i].terminal
        /\ \A j \in Slots : sends[j].pc = "free" => sends'[j].pc = "free")
         => IsPrefix(streamingContent, streamingContent')]_vars

\* C21: whatever the cuts, the values the decoder has yielded after reading a
\* prefix of a text of newline-terminated lines are the values it yields for
\* that prefix received in one read, in the same order; so are the values
\* yielded by the time the transport closes.
C21_CutsDoNotMatter ==
  \A i \in Slots :
    sends[i].origin = "decoder"
      => sends[i].pending = DecodeFragment(<<>>, SubSeq(sends[i].text, 1, sends[i].pos)).yielded

\* A read has ended inside the marker of the third line, after another had
\* ended inside the body of the first.
C21_Witness ==
  \E i \in Slots :
    /\ sends[i].pc = "read"
    /\ sends[i].text = JoinLines(<<EventLine(ChunkA), EventLine(Unparsable), EventLine(DoneFull)>>)
    /\ sends[i].buffer = <<"d", "a", "t">>
    /\ Len(sends[i].pending) = 1
    /\ sends[i].pending[1].type = Some("chunk")

\* The step in which send i takes a null value from the decoder.
NullStep(i) ==
  /\ sends[i].pc = "yield"
  /\ Head(sends[i].pending).json = "null"
  /\ sends'[i] # sends[i]

\* C22: a line whose body is null is skipped like any line that is not a
\* well-formed event: the step that takes it changes nothing in the store,
\* sets no error and does not end the stream, whose later events are still to
\* be processed.
C22_MalformedLineIsSkipped ==
  [][\A i \in Slots :
       NullStep(i) =>
         /\ UNCHANGED <<messages, streamingContent, error, isStreaming>>
         /\ sends'[i].pc \in {"read", "yield"}
         /\ sends'[i].pending = Tail(sends[i].pending)]_vars

\* C23: once a send has handled a done or an error event, the later events of
\* its stream change neither messages, the buffer, the error nor isStreaming.
C23_FirstTerminalEndsCycle ==
  [][\A i \in Slots :
       (sends[i].terminal /\ sends[i].pc = "yield" /\ sends'[i] # sends[i])
         => UNCHANGED <<messages, streamingContent, error, isStreaming>>]_vars

\* C25: an invocation of sendMessage issues its request once: it never goes
\* back to the request after an answer, a failure or an event, and the one
\* operation the user invoked leaves at most one invocation behind it.
C25_NoRetry ==
  /\ [][\A i \in Slots : sends'[i].pc = "fetch" => sends[i].pc \in {"free", "fetch"}]_vars
  /\ [](Cardinality({i \in Slots : sends[i].pc # "free"}) <= 1)

C25_Witness ==
  \E i \in Slots :
    /\ sends[i].pc = "done"
    /\ sends[i].response = "unparsable"
    /\ sends[i].thrown = Some(StreamFailed)
    /\ \A j \in Slots \ {i} : sends[j].pc = "free"

\* The body that carries a run of chunk events followed by a final line with
\* no line break after it.
CutStreamOf(run, final) ==
  JoinLines([k \in 1..Len(run) |-> EventLine(run[k])]) \o EventLine(final)

\* C30: when the body ends with a done or error line that has no line break,
\* the send ends as if the line were not there: no assistant message, no
\* error, and the chunks still in the buffer.
C30_UnterminatedLineIsDropped ==
  \A i \in Slots : \A run \in ChunkRuns : \A final \in {DoneFull, ErrorX} :
    (sends[i].pc = "done" /\ sends[i].text = CutStreamOf(run, final))
      => /\ messages = sends[i].history
         /\ error = None
         /\ streamingContent = Fragments(run)
         /\ sends[i].pending = <<>>

C30_Witness ==
  \E i \in Slots :
    /\ sends[i].pc = "done"
    /\ sends[i].text = CutStreamOf(<<ChunkA>>, DoneFull)
    /\ messages = <<sends[i].userMessage>>
    /\ streamingContent = <<"a">>
    /\ error = None

\* The assistant messages whose identifier sendMessage generated, and the
\* invocation that generated an identifier.
LocalAssistants == {k \in 1..Len(messages) : messages[k].id \in LocalIds \ UserLocalIds}
Owner(id) == CHOOSE i \in Slots : id \in {LocalId(i, k) : k \in 0..(MaxLines + 1)}

\* C24: a send only appends: the step that starts it leaves the list it was
\* given followed by its user message (the list as it was, unless regenerate
\* has just removed the deleted reply), the step that handles done appends one
\* assistant message, every other step of the send leaves the list alone; and
\* the assistant messages of successive sends are in the order of the sends.
C24_SendOnlyAppends ==
  /\ [][\A i \in Slots :
          /\ SendStep(i) =>
               /\ messages' = Append(Front(messages'), sends'[i].userMessage)
               /\ sends'[i].origin # "regenerate" => Front(messages') = messages
               /\ sends'[i].origin = "regenerate" =>
                    Front(messages') = WithoutId(messages, regen'.deleted)
          /\ DoneStep(i) =>
               /\ messages' = Append(messages, Last(messages'))
               /\ Last(messages').role = "assistant"
          /\ (sends'[i] # sends[i] /\ ~SendStep(i) /\ ~DoneStep(i)) => messages' = messages]_vars
  /\ [](\A k, l \in LocalAssistants :
          k < l => Owner(messages[k].id) <= Owner(messages[l].id))

C24_Witness ==
  /\ Len(messages) = 4
  /\ messages[2].role = "assistant"
  /\ messages[2].id = LocalId(1, 1)
  /\ messages[3].role = "user"
  /\ messages[4].role = "assistant"
  /\ messages[4].id = LocalId(2, 1)
  /\ sends[2].pc = "done"

\* C26: every message of the list belongs to the active conversation, and the
\* list is empty when no conversation is active.
C26_MessagesOfActiveConversation ==
  /\ activeConversation = None => messages = <<>>
  /\ \A k \in 1..Len(messages) :
       /\ activeConversation # None
       /\ messages[k].conversation_id = The(activeConversation).id

\* C27: once no load is pending, the list is one the server holds for the
\* active conversation, the last one selected.
C27_LastSelectionWins ==
  (loads = {} /\ activeConversation # None)
    => messages \in ServerMessages(The(activeConversation).id)

\* C28: in the step that ends regenerate's request, every message of the list
\* other than the one the server deleted stays in the list.
C28_RegenerateRemovesOnlyDeleted ==
  [][(regen.pc = "request" /\ regen'.pc # "request") =>
       \A k \in 1..Len(messages) :
         messages[k].id # RegenerateResult(regen.snapshot).deleted_message_id
           => \E j \in 1..Len(messages') : messages'[j] = messages[k]]_vars

\* C29: once a request of editMessage has failed, no send is started, the
\* list is the one the edit was submitted on, and the error is the edit's.
C29_FailedEditStopsFlow ==
  edit.failed
    => /\ \A i \in Slots : sends[i].pc = "free"
       /\ messages = edit.before
       /\ error = Some(ServerDetail)

====
